---- MODULE Spec2Model ----
(***************************************************************************)
(* Model of src/main.py: a read-only FastAPI service over three tables     *)
(* (dbo.[User], dbo.Equipment, dbo.Rental) reached through pyodbc.         *)
(*                                                                         *)
(* State: the process (module import = startup), the database (its         *)
(* reachability and the three tables, owned by others), the pyodbc         *)
(* connections, and one record of locals per in-flight request.  FastAPI   *)
(* runs the synchronous handlers on a thread pool, so the steps of         *)
(* different requests interleave freely.                                   *)
(***************************************************************************)
EXTENDS Integers, Sequences, FiniteSets, TLC

\* ------------------------------------------------------------------ bounds
NumReqs == 2
MaxWrites == 1

Reqs == 1..NumReqs

\* ------------------------------------------------------- database values
\* A value as pyodbc hands it over: a Python int, str or datetime, or None
\* for SQL NULL.
I(n) == [t |-> "int", n |-> n]
S(s) == [t |-> "str", s |-> s]
D(n) == [t |-> "datetime", at |-> n]
NULL == [t |-> "null"]

\* Rows the external owners of the tables may store (column order of the
\* SELECT lists of main.py).
UserRows ==
    { <<I(1), S("Ada"), S("Lovelace"), I(3)>>,
      <<I(2), NULL, S("Hopper"), I(0)>> }

EquipmentRows ==
    { <<I(1), S("Kayak"), S("Water"), I(2), S("available")>>,
      <<I(2), S("Skis"), S("Winter"), I(0), NULL>> }

RentalRows ==
    { <<I(1), D(10), D(20), D(15), D(18), S("returned"), I(1), I(1)>>,
      <<I(2), D(30), NULL, D(40), NULL, S("active"), I(1), I(2)>>,
      <<I(3), D(50), D(55), D(60), NULL, NULL, I(2), I(1)>> }

TableNames == {"User", "Equipment", "Rental"}

\* What the tables hold when the service starts.
SeedTables ==
    [tn \in TableNames |->
        CASE tn = "User" -> << <<I(1), S("Ada"), S("Lovelace"), I(3)>> >>
          [] tn = "Equipment" -> << <<I(1), S("Kayak"), S("Water"), I(2), S("available")>> >>
          [] tn = "Rental" -> << <<I(1), D(10), D(20), D(15), D(18), S("returned"), I(1), I(1)>> >>]

RowsOf(tn) ==
    CASE tn = "User" -> UserRows
      [] tn = "Equipment" -> EquipmentRows
      [] tn = "Rental" -> RentalRows

ListEndpoints == {"/users", "/equipment", "/rentals"}
Endpoints == {"/"} \cup ListEndpoints

\* The table each list endpoint's fixed SELECT reads.
TableOf(ep) ==
    CASE ep = "/users" -> "User"
      [] ep = "/equipment" -> "Equipment"
      [] ep = "/rentals" -> "Rental"

\* ------------------------------------------------------ configuration
NoVal == "<unset>"
EnvValues == {NoVal, "", "Driver=x;Server=y"}

\* load_dotenv() does not override a variable the environment already
\* defines; os.getenv then yields the variable or None.
getenv(osEnv, dotEnv) == IF osEnv # NoVal THEN osEnv ELSE dotEnv

\* Variant: the guard written `CONNECTION_STRING is None`.
ConfigAbsent_isNone(cs) == cs = NoVal

\* `not CONNECTION_STRING`: None and the empty string are both falsy.
ConfigAbsent(cs) == cs = NoVal \/ cs = ""

\* The column lists of the three SELECT statements, in order.
SelectList(ep) ==
    CASE ep = "/users" -> <<"userId", "firstName", "lastName", "totalRentals">>
      [] ep = "/equipment" ->
            <<"equipmentId", "name", "category", "totalRentals", "equipmentStatus">>
      [] ep = "/rentals" ->
            <<"rentalId", "dateStart", "dateFinish", "expectedReturn",
              "actualReturn", "status", "userId", "equipmentId">>

\* ------------------------------------------------------------ row mappers
HasNull(row) == \E k \in 1..Len(row) : row[k].t = "null"
NotHasNull(row) == ~HasNull(row)

\* Variant: a mapper that skips rows holding a NULL.
fetch_users_skipNull(rows) ==
    LET kept == SelectSeq(rows, NotHasNull)
    IN  [i \in 1..Len(kept) |->
            [userId |-> kept[i][1],
             firstName |-> kept[i][2],
             lastName |-> kept[i][3],
             totalRentals |-> kept[i][4]]]

fetch_users(rows) ==
    [i \in 1..Len(rows) |->
        [userId |-> rows[i][1],
         firstName |-> rows[i][2],
         lastName |-> rows[i][3],
         totalRentals |-> rows[i][4]]]

fetch_equipments(rows) ==
    [i \in 1..Len(rows) |->
        [equipmentId |-> rows[i][1],
         name |-> rows[i][2],
         category |-> rows[i][3],
         totalRentals |-> rows[i][4],
         equipmentStatus |-> rows[i][5]]]

\* Variant: two column indexes off by one.
fetch_rentals_shifted(rows) ==
    [i \in 1..Len(rows) |->
        [rentalId |-> rows[i][1],
         dateStart |-> rows[i][2],
         dateFinish |-> rows[i][4],
         expectedReturn |-> rows[i][3],
         actualReturn |-> rows[i][5],
         status |-> rows[i][6],
         userId |-> rows[i][7],
         equipmentId |-> rows[i][8]]]

fetch_rentals(rows) ==
    [i \in 1..Len(rows) |->
        [rentalId |-> rows[i][1],
         dateStart |-> rows[i][2],
         dateFinish |-> rows[i][3],
         expectedReturn |-> rows[i][4],
         actualReturn |-> rows[i][5],
         status |-> rows[i][6],
         userId |-> rows[i][7],
         equipmentId |-> rows[i][8]]]

\* The mapper each handler calls.
Fetch(ep, rows) ==
    CASE ep = "/users" -> fetch_users(rows)
      [] ep = "/equipment" -> fetch_equipments(rows)
      [] ep = "/rentals" -> fetch_rentals(rows)

\* ------------------------------------------------------- response models
Req(base) == [base |-> base, optional |-> FALSE]
Opt(base) == [base |-> base, optional |-> TRUE]

UserOut ==
    [userId |-> Req("int"), firstName |-> Req("str"),
     lastName |-> Req("str"), totalRentals |-> Req("int")]

EquipmentOut ==
    [equipmentId |-> Req("int"), name |-> Req("str"),
     category |-> Req("str"), totalRentals |-> Req("int"),
     equipmentStatus |-> Req("str")]

\* Variant: dateFinish declared `datetime` instead of Optional[datetime].
RentalOut_required ==
    [rentalId |-> Req("int"), dateStart |-> Req("datetime"),
     dateFinish |-> Req("datetime"), expectedReturn |-> Req("datetime"),
     actualReturn |-> Opt("datetime"), status |-> Req("str"),
     userId |-> Req("int"), equipmentId |-> Req("int")]

RentalOut ==
    [rentalId |-> Req("int"), dateStart |-> Req("datetime"),
     dateFinish |-> Opt("datetime"), expectedReturn |-> Req("datetime"),
     actualReturn |-> Opt("datetime"), status |-> Req("str"),
     userId |-> Req("int"), equipmentId |-> Req("int")]

OutModel(ep) ==
    CASE ep = "/users" -> UserOut
      [] ep = "/equipment" -> EquipmentOut
      [] ep = "/rentals" -> RentalOut

\* Pydantic's check of one keyword argument against the declared field: a
\* value of the declared type passes, None passes only for Optional[...].
FieldOk(ftype, val) ==
    \/ val.t = ftype.base
    \/ ftype.optional /\ val.t = "null"

\* XOut(**x.__dict__) raises ValidationError unless every field passes.
ModelOk(model, obj) == \A f \in DOMAIN model : FieldOk(model[f], obj[f])

\* JSON encoding of one validated field value.
ToJson(val) ==
    CASE val.t = "int" -> [j |-> "number", n |-> val.n]
      [] val.t = "str" -> [j |-> "string", s |-> val.s]
      [] val.t = "datetime" -> [j |-> "iso8601", at |-> val.at]
      [] val.t = "null" -> [j |-> "null"]

\* [XOut(**x.__dict__) for x in items], as serialised by the framework.
BuildBody(ep, items) ==
    [i \in 1..Len(items) |->
        [f \in DOMAIN OutModel(ep) |-> ToJson(items[i][f])]]

AllValid(ep, items) ==
    \A i \in 1..Len(items) : ModelOk(OutModel(ep), items[i])

\* ------------------------------------------------------------------ state
VARIABLES
    proc,               \* "starting" | "serving" | "failed"
    CONNECTION_STRING,  \* module global, set once at import
    dbUp,               \* whether pyodbc.connect can reach the server
    tables,             \* table name -> sequence of rows
    writes,             \* number of writes by the tables' owners so far
    conns,              \* connection id -> pyodbc connection ever opened
    pc,                 \* per request: position in its handler
    endpoint,           \* per request: path requested
    conn,               \* per request: local `conn` (a connection id, or NoConn)
    items,              \* per request: list of dataclass records
    resp,               \* per request: what the caller receives
    qtab,               \* per request: the table as it was when the query ran
    exc,                \* per request: where an exception was raised
    connects,           \* per request: calls of get_connection()
    executes            \* per request: calls of cursor.execute()

vars == <<proc, CONNECTION_STRING, dbUp, tables, writes, conns, pc, endpoint,
          conn, items, resp, qtab, exc, connects, executes>>

procVars == <<proc, CONNECTION_STRING>>
dbVars == <<dbUp, tables, writes>>

\* pyodbc.connect returns a new object on every call: the k-th connection
\* opened by request r is named <<r, k>>.
NoConn == <<0, 0>>
ConnIds == DOMAIN conns

NoResp == [status |-> 0, body |-> "<none>"]
ServerError == [status |-> 500, body |-> "<none>"]
Ok(body) == [status |-> 200, body |-> body]

Init ==
    /\ proc = "starting"
    /\ CONNECTION_STRING = NoVal
    /\ dbUp \in BOOLEAN
    /\ tables = SeedTables
    /\ writes = 0
    /\ conns = [c \in {} |-> NoConn]
    /\ pc = [r \in Reqs |-> "idle"]
    /\ endpoint = [r \in Reqs |-> "<none>"]
    /\ conn = [r \in Reqs |-> NoConn]
    /\ items = [r \in Reqs |-> <<>>]
    /\ resp = [r \in Reqs |-> NoResp]
    /\ qtab = [r \in Reqs |-> <<>>]
    /\ exc = [r \in Reqs |-> "none"]
    /\ connects = [r \in Reqs |-> 0]
    /\ executes = [r \in Reqs |-> 0]

\* ---------------------------------------------------------------- startup
\* Module import: load_dotenv(), os.getenv, and the guard that raises
\* ValueError.  The app object exists only if the import completes.
Startup ==
    /\ proc = "starting"
    /\ \E osEnv \in EnvValues, dotEnv \in EnvValues :
          /\ CONNECTION_STRING' = getenv(osEnv, dotEnv)
          /\ proc' = IF ConfigAbsent(getenv(osEnv, dotEnv))
                     THEN "failed" ELSE "serving"
    /\ UNCHANGED <<dbVars, conns, pc, endpoint, conn, items, resp, qtab,
                   exc, connects, executes>>

\* ------------------------------------------------------------ environment
\* The database server becomes unreachable, or reachable again.
DbToggle ==
    /\ dbUp' = ~dbUp
    /\ UNCHANGED <<procVars, tables, writes, conns, pc, endpoint, conn,
                   items, resp, qtab, exc, connects, executes>>

\* The owners of the tables insert a row (ids are unique) ...
ExternalInsert ==
    /\ writes < MaxWrites
    /\ \E tn \in TableNames : \E row \in RowsOf(tn) :
          /\ \A i \in 1..Len(tables[tn]) : tables[tn][i] # row
          /\ tables' = [tables EXCEPT ![tn] = Append(@, row)]
    /\ writes' = writes + 1
    /\ UNCHANGED <<procVars, dbUp, conns, pc, endpoint, conn, items, resp,
                   qtab, exc, connects, executes>>

\* ... or delete the one last inserted.
ExternalDelete ==
    /\ writes < MaxWrites
    /\ \E tn \in TableNames :
          /\ tables[tn] # <<>>
          /\ tables' = [tables EXCEPT ![tn] = SubSeq(@, 1, Len(@) - 1)]
    /\ writes' = writes + 1
    /\ UNCHANGED <<procVars, dbUp, conns, pc, endpoint, conn, items, resp,
                   qtab, exc, connects, executes>>

\* --------------------------------------------------------------- requests
\* The router dispatches a GET to its handler.  Request ids are labels in
\* order of arrival.
Begin(r) ==
    /\ proc = "serving"
    /\ pc[r] = "idle"
    /\ \A q \in Reqs : q < r => pc[q] # "idle"
    /\ \E ep \in Endpoints :
          /\ endpoint' = [endpoint EXCEPT ![r] = ep]
          /\ pc' = [pc EXCEPT ![r] = IF ep = "/" THEN "root" ELSE "connect"]
    /\ UNCHANGED <<procVars, dbVars, conns, conn, items, resp, qtab, exc,
                   connects, executes>>

\* Variant: a health check that pings the database.
root_pingsDb(r) ==
    /\ pc[r] = "root"
    /\ resp' = [resp EXCEPT ![r] =
                   IF dbUp THEN Ok("Rental API is running") ELSE ServerError]
    /\ pc' = [pc EXCEPT ![r] = "done"]
    /\ UNCHANGED <<procVars, dbVars, conns, endpoint, conn, items, qtab,
                   exc, connects, executes>>

\* GET /
root(r) ==
    /\ pc[r] = "root"
    /\ resp' = [resp EXCEPT ![r] = Ok("Rental API is running")]
    /\ pc' = [pc EXCEPT ![r] = "done"]
    /\ UNCHANGED <<procVars, dbVars, conns, endpoint, conn, items, qtab,
                   exc, connects, executes>>

\* pyodbc.connect(CONNECTION_STRING) returns a new connection, bound to the
\* handler's local `conn` by the with statement.
NewConnection(r) == [state |-> "open", txn |-> "active", owner |-> r, users |-> {}]

\* Variant: a module-level connection reused while it is open.
connect_ok_shared(r) ==
    /\ dbUp
    /\ IF \E c \in ConnIds : conns[c].state = "open"
       THEN /\ conn' = [conn EXCEPT ![r] =
                          CHOOSE c \in ConnIds : conns[c].state = "open"]
            /\ UNCHANGED conns
       ELSE /\ conns' = (<<r, connects[r] + 1>> :> NewConnection(r)) @@ conns
            /\ conn' = [conn EXCEPT ![r] = <<r, connects[r] + 1>>]
    /\ pc' = [pc EXCEPT ![r] = "fetch"]
    /\ UNCHANGED <<resp, exc>>

connect_ok(r) ==
    /\ dbUp
    /\ conns' = (<<r, connects[r] + 1>> :> NewConnection(r)) @@ conns
    /\ conn' = [conn EXCEPT ![r] = <<r, connects[r] + 1>>]
    /\ pc' = [pc EXCEPT ![r] = "fetch"]
    /\ UNCHANGED <<resp, exc>>

\* Variant: the failure caught and answered with an empty list.
connect_error_swallowed(r) ==
    /\ ~dbUp
    /\ resp' = [resp EXCEPT ![r] = Ok(<<>>)]
    /\ exc' = [exc EXCEPT ![r] = "connect"]
    /\ pc' = [pc EXCEPT ![r] = "done"]
    /\ UNCHANGED <<conns, conn>>

\* pyodbc.connect raises; nothing in the handler catches it, and the
\* framework answers 500.
connect_error(r) ==
    /\ ~dbUp
    /\ resp' = [resp EXCEPT ![r] = ServerError]
    /\ exc' = [exc EXCEPT ![r] = "connect"]
    /\ pc' = [pc EXCEPT ![r] = "done"]
    /\ UNCHANGED <<conns, conn>>

get_connection(r) ==
    /\ pc[r] = "connect"
    /\ connects' = [connects EXCEPT ![r] = @ + 1]
    /\ (connect_ok(r) \/ connect_error(r))
    /\ UNCHANGED <<procVars, dbVars, endpoint, items, qtab, executes>>

\* Variant: the exception caught and the rows read so far returned.
query_error_partial(r, where) ==
    /\ conns' = [conns EXCEPT ![conn[r]].txn = "rolledback"]
    /\ resp' = [resp EXCEPT ![r] = Ok(<<>>)]
    /\ exc' = [exc EXCEPT ![r] = where]
    /\ pc' = [pc EXCEPT ![r] = "done"]
    /\ UNCHANGED <<tables, items, qtab>>

\* cursor.execute or cursor.fetchall raises inside the with block:
\* Connection.__exit__ rolls the transaction back and lets the exception
\* propagate out of the handler; the framework answers 500.  __exit__ does
\* not close the connection, and the traceback keeps the handler's frame
\* (and `conn`) alive.  No rows reach the handler.
query_error(r, where) ==
    /\ conns' = [conns EXCEPT ![conn[r]].txn = "rolledback"]
    /\ resp' = [resp EXCEPT ![r] = ServerError]
    /\ exc' = [exc EXCEPT ![r] = where]
    /\ pc' = [pc EXCEPT ![r] = "done"]
    /\ UNCHANGED <<tables, items, qtab>>

\* Variant: a statement that also clears the table it reads.
fetch_ok_deletes(r) ==
    /\ dbUp
    /\ qtab' = [qtab EXCEPT ![r] = tables[TableOf(endpoint[r])]]
    /\ items' = [items EXCEPT ![r] =
                    Fetch(endpoint[r], tables[TableOf(endpoint[r])])]
    /\ conns' = [conns EXCEPT ![conn[r]].users = @ \cup {r},
                              ![conn[r]].txn = "committed"]
    /\ pc' = [pc EXCEPT ![r] = "build"]
    /\ tables' = [tables EXCEPT ![TableOf(endpoint[r])] = <<>>]
    /\ UNCHANGED <<resp, exc>>

\* fetch_*(conn) returns: cursor.execute(<fixed SELECT>) ran the query on the
\* handler's connection, cursor.fetchall() returned the table's rows as they
\* were, and the list comprehension built one dataclass per row.  The with
\* block is then left normally: Connection.__exit__ commits.  It does not
\* close the connection.
fetch_ok(r) ==
    /\ dbUp
    /\ qtab' = [qtab EXCEPT ![r] = tables[TableOf(endpoint[r])]]
    /\ items' = [items EXCEPT ![r] =
                    Fetch(endpoint[r], tables[TableOf(endpoint[r])])]
    /\ conns' = [conns EXCEPT ![conn[r]].users = @ \cup {r},
                              ![conn[r]].txn = "committed"]
    /\ pc' = [pc EXCEPT ![r] = "build"]
    /\ UNCHANGED <<tables, resp, exc>>

\* The body of the with block: users = fetch_users(conn) (and its twins).
fetch(r) ==
    /\ pc[r] = "fetch"
    /\ executes' = [executes EXCEPT ![r] = @ + 1]
    /\ \/ fetch_ok(r)
       \/ \E where \in {"execute", "fetchall"} : query_error(r, where)
    /\ UNCHANGED <<procVars, dbUp, writes, endpoint, conn, connects>>

\* The print loop and the list of XOut(**x.__dict__); then the handler
\* returns.  On a normal return the frame is torn down, the last reference
\* to the connection goes, and pyodbc's deallocator closes it.  A
\* ValidationError propagates instead: the framework answers 500 and the
\* traceback keeps the frame alive.
respond(r) ==
    /\ pc[r] = "build"
    /\ IF AllValid(endpoint[r], items[r])
       THEN /\ resp' = [resp EXCEPT ![r] = Ok(BuildBody(endpoint[r], items[r]))]
            /\ conns' = [conns EXCEPT ![conn[r]].state = "closed"]
            /\ UNCHANGED exc
       ELSE /\ resp' = [resp EXCEPT ![r] = ServerError]
            /\ exc' = [exc EXCEPT ![r] = "validation"]
            /\ UNCHANGED conns
    /\ pc' = [pc EXCEPT ![r] = "done"]
    /\ UNCHANGED <<procVars, dbVars, endpoint, conn, items, qtab,
                   connects, executes>>

\* The interpreter discards the exception and its traceback some time after
\* the 500 response has gone out; only then is the connection object
\* deallocated and the ODBC handle closed.
Finalize(c) ==
    /\ conns[c].state = "open"
    /\ pc[conns[c].owner] = "done"
    /\ conns' = [conns EXCEPT ![c].state = "closed"]
    /\ UNCHANGED <<procVars, dbVars, pc, endpoint, conn, items, resp,
                   qtab, exc, connects, executes>>

HandlerStep(r) ==
    \/ root(r)
    \/ get_connection(r)
    \/ fetch(r)
    \/ respond(r)

Next ==
    \/ Startup
    \/ DbToggle
    \/ ExternalInsert
    \/ ExternalDelete
    \/ \E r \in Reqs : Begin(r)
    \/ \E r \in Reqs : HandlerStep(r)
    \/ \E c \in ConnIds : Finalize(c)

Spec == Init /\ [][Next]_vars

\* ================================================================= claims
Done(r) == pc[r] = "done"
ListReq(r) == endpoint[r] \in ListEndpoints

\* The with block of request r was left without an exception: the query and
\* the fetch succeeded and __exit__ committed.
QueryOk(r) == conn[r] # NoConn /\ conns[conn[r]].txn = "committed"

\* The query of request r raised after the connection was acquired.
QueryFailed(r) == conn[r] # NoConn /\ conns[conn[r]].txn = "rolledback"

\* Columns the data model declares nullable (Rental.dateFinish, .actualReturn).
NullableColumns(ep) == IF ep = "/rentals" THEN {3, 5} ELSE {}

RowAcceptable(ep, row) ==
    \A k \in 1..Len(row) : row[k].t = "null" => k \in NullableColumns(ep)

\* The body of r's response is its query result mapped row by row, column k
\* to the k-th declared field, in the order the database returned the rows.
MappedPositionally(r) ==
    LET cols == SelectList(endpoint[r])
        q == qtab[r]
        b == resp[r].body
    IN  /\ Len(b) = Len(q)
        /\ \A i \in 1..Len(q) :
              /\ DOMAIN b[i] = {cols[k] : k \in 1..Len(cols)}
              /\ \A k \in 1..Len(cols) : b[i][cols[k]] = ToJson(q[i][k])

\* C1: once a list request has finished (success or failure), the connection
\* it acquired is closed.
C1_ReleasedOnCompletion ==
    \A r \in Reqs :
        (Done(r) /\ conn[r] # NoConn) => conns[conn[r]].state = "closed"

\* C2: a list request whose get_connection() failed ends in a server error,
\* never in a success response.
C2_UnreachableIsServerError ==
    \A r \in Reqs :
        (Done(r) /\ ListReq(r) /\ conn[r] = NoConn) => resp[r].status = 500

C2_Witness ==
    \E r \in Reqs :
        Done(r) /\ ListReq(r) /\ conn[r] = NoConn /\ connects[r] = 1

\* C3: a successful list response is an array with as many elements as the
\* table had rows when the query ran (the empty table included).
C3_LengthIsRowCount ==
    \A r \in Reqs :
        (Done(r) /\ ListReq(r) /\ resp[r].status = 200)
            => Len(resp[r].body) = Len(qtab[r])

C3_Witness ==
    \E r \in Reqs :
        /\ Done(r) /\ ListReq(r) /\ resp[r].status = 200
        /\ Len(resp[r].body) = 2
        /\ \E q \in Reqs :
              /\ Done(q) /\ endpoint[q] = endpoint[r] /\ resp[q].status = 200
              /\ Len(resp[q].body) = 1

\* C4: GET / answers 200 with the fixed non-empty string and never touches
\* the database, whether it is reachable or not.
C4_RootAlwaysOk ==
    \A r \in Reqs :
        (Done(r) /\ endpoint[r] = "/")
            => /\ resp[r].status = 200
               /\ resp[r].body = "Rental API is running"
               /\ resp[r].body # ""
               /\ conn[r] = NoConn
               /\ connects[r] = 0
               /\ executes[r] = 0

C4_Witness ==
    \E r \in Reqs : Done(r) /\ endpoint[r] = "/" /\ ~dbUp /\ resp[r].status = 200

\* C5: with the connection string unset or empty the process fails at
\* startup and serves nothing; no handler runs with an empty connection
\* string.
C5_NoStartWithoutConfig ==
    /\ (proc # "starting" /\ CONNECTION_STRING \in {NoVal, ""})
          => (proc = "failed" /\ \A r \in Reqs : pc[r] = "idle")
    /\ \A r \in Reqs : pc[r] # "idle" => CONNECTION_STRING \notin {NoVal, ""}
    /\ proc = "failed" => \A r \in Reqs : pc[r] = "idle"

C5_Witness == proc = "failed" /\ CONNECTION_STRING = ""

\* C6 as stated: whenever the query succeeds, the request succeeds with
\* every row mapped positionally; no check of field contents fails it.
C6_EveryRowMappedNoValidation ==
    \A r \in Reqs :
        (Done(r) /\ ListReq(r) /\ QueryOk(r))
            => (resp[r].status = 200 /\ MappedPositionally(r))

\* C6 amended: when the query succeeds, either every returned row holds
\* NULL only in columns declared nullable, and the response is a success with
\* every row mapped positionally, in order, none filtered out; or some row
\* holds NULL in a non-nullable field, and the whole request fails with a
\* server error.
C6_EveryRowMappedOrRequestFails ==
    \A r \in Reqs :
        (Done(r) /\ ListReq(r) /\ QueryOk(r))
            => IF \A i \in 1..Len(qtab[r]) : RowAcceptable(endpoint[r], qtab[r][i])
               THEN resp[r].status = 200 /\ MappedPositionally(r)
               ELSE resp[r].status = 500

C6_Witness ==
    /\ \E r \in Reqs :
          Done(r) /\ ListReq(r) /\ QueryOk(r) /\ resp[r].status = 500
    /\ \E r \in Reqs :
          /\ Done(r) /\ endpoint[r] = "/rentals" /\ QueryOk(r)
          /\ resp[r].status = 200 /\ Len(resp[r].body) >= 1

\* C7: no connection is held or queried by two requests, and two requests
\* that ran the same query on the same table contents got the same answer.
C7_ConnectionsNotShared ==
    /\ \A r1 \in Reqs, r2 \in Reqs :
          (r1 # r2 /\ conn[r1] # NoConn) => conn[r1] # conn[r2]
    /\ \A c \in ConnIds : conns[c].users \subseteq {conns[c].owner}
    /\ \A r \in Reqs : conn[r] # NoConn => conns[conn[r]].owner = r
    /\ \A r1 \in Reqs, r2 \in Reqs :
          ( /\ Done(r1) /\ Done(r2) /\ QueryOk(r1) /\ QueryOk(r2)
            /\ endpoint[r1] = endpoint[r2] /\ qtab[r1] = qtab[r2] )
          => /\ resp[r1].status = resp[r2].status
             /\ resp[r1].status = 200 => resp[r1].body = resp[r2].body

C7_Witness ==
    \E r1 \in Reqs, r2 \in Reqs :
        /\ r1 # r2
        /\ pc[r1] = "build" /\ pc[r2] = "build"
        /\ conns[conn[r1]].state = "open" /\ conns[conn[r2]].state = "open"
        /\ qtab[r1] # qtab[r2] /\ endpoint[r1] = endpoint[r2]

\* C8: no step of any handler changes the User, Equipment or Rental table.
C8_HandlersLeaveTablesUnchanged ==
    [][(\E r \in Reqs : Begin(r) \/ HandlerStep(r)) => tables' = tables]_vars

C8_Witness ==
    /\ tables = SeedTables
    /\ \E r \in Reqs : Done(r) /\ ListReq(r) /\ resp[r].status = 200
    /\ \E r \in Reqs : Done(r) /\ ListReq(r) /\ resp[r].status = 500

\* C9: a Rental row with NULL dateFinish or actualReturn does not fail the
\* request and is not dropped; its record carries the field with value null.
C9_NullableFieldsAreNull ==
    \A r \in Reqs :
        (Done(r) /\ endpoint[r] = "/rentals" /\ QueryOk(r))
            => /\ (\A i \in 1..Len(qtab[r]) :
                      \A k \in {1, 2, 4, 6, 7, 8} : qtab[r][i][k].t # "null")
                      => resp[r].status = 200
               /\ resp[r].status = 200 =>
                     /\ Len(resp[r].body) = Len(qtab[r])
                     /\ \A i \in 1..Len(qtab[r]) :
                           /\ {"dateFinish", "actualReturn"} \subseteq DOMAIN resp[r].body[i]
                           /\ qtab[r][i][3].t = "null"
                                 => resp[r].body[i].dateFinish.j = "null"
                           /\ qtab[r][i][5].t = "null"
                                 => resp[r].body[i].actualReturn.j = "null"

C9_Witness ==
    \E r \in Reqs :
        /\ Done(r) /\ endpoint[r] = "/rentals" /\ resp[r].status = 200
        /\ \E i \in 1..Len(qtab[r]) :
              /\ qtab[r][i][3].t = "null"
              /\ qtab[r][i][5].t = "null"
              /\ resp[r].body[i].dateFinish.j = "null"

\* C10: a request whose query raised after the connection was acquired ends
\* as a failed request, with nothing built from rows, after exactly one
\* connection attempt and one execute.
C10_QueryFailureIsAllOrNothing ==
    \A r \in Reqs :
        (Done(r) /\ QueryFailed(r))
            => /\ resp[r].status = 500
               /\ connects[r] = 1
               /\ executes[r] = 1

C10_Witness ==
    \E r \in Reqs :
        Done(r) /\ QueryFailed(r) /\ exc[r] = "fetchall" /\ resp[r].status = 500

====
